---- MODULE Spec2Model ----
(***************************************************************************)
(* Model of devenv/sync.py: installed_pnpm, install_pnpm and main.         *)
(*                                                                         *)
(* Strings are sequences of one-character strings.  The file system under  *)
(* the bin-root and the external programs (npm, the pnpm shim, the pnpm    *)
(* binary) are the environment; their outcome is a function of the file    *)
(* system state or a nondeterministic choice where the code cannot know.   *)
(***************************************************************************)
EXTENDS Integers, Sequences, FiniteSets, TLC

VARIABLES
  shim,      \* the file {binroot}/pnpm
  backing,   \* the file {binroot}/node-env/bin/pnpm
  sysPnpm,   \* TRUE when a pnpm executable is on the system-wide PATH
  pc,        \* position of the single thread of control
  op,        \* top-level operation in progress (or the last one)
  version,   \* the version argument of install_pnpm / installed_pnpm
  stdout,    \* the local variable stdout of installed_pnpm
  result,    \* what installed_pnpm returned: "none", "true", "false"
  outcome,   \* of the top-level operation: "none", "running", "returned", "raised"
  raisedAt,  \* the step that raised, "none" otherwise
  log,       \* subprocesses run by the top-level operation, in order
  writes,    \* number of fs.write_script calls of the top-level operation
  nodeState, \* node.install in the current main: "none", "ok", "failed"
  start,     \* bin-root contents when install_pnpm was entered
  prev,      \* summary of the previous top-level operation
  calls,     \* number of top-level operations started
  pm,        \* package_json["packageManager"] as last read
  pmDone     \* TRUE once pnpm_version was derived from pm

vars == <<shim, backing, sysPnpm, pc, op, version, stdout, result, outcome,
          raisedAt, log, writes, nodeState, start, prev, calls, pm, pmDone>>

fsVars == <<shim, backing, sysPnpm>>

(* ------------------------------ bounds --------------------------------- *)

MaxCalls == 2
MaxLen == 4

(* ------------------------------ strings -------------------------------- *)

Whitespace == {"sp", "nl"}
Digits == {"8", "9"}
Alphabet == {"p", "@", "8", "+", "sp"}

StringsUpTo(n) == UNION {[1..k -> Alphabet] : k \in 0..n}

RECURSIVE LStrip(_)
LStrip(s) ==
  IF s # <<>> /\ Head(s) \in Whitespace THEN LStrip(Tail(s)) ELSE s

RECURSIVE RStrip(_)
RStrip(s) ==
  IF s # <<>> /\ s[Len(s)] \in Whitespace
  THEN RStrip(SubSeq(s, 1, Len(s) - 1))
  ELSE s

\* str.strip()
Strip(s) == RStrip(LStrip(s))

\* str.split("@")
RECURSIVE Split(_)
Split(s) ==
  IF \A i \in 1..Len(s) : s[i] # "@"
  THEN <<s>>
  ELSE LET i == CHOOSE k \in 1..Len(s) :
                   s[k] = "@" /\ \A j \in 1..(k - 1) : s[j] # "@"
       IN  <<SubSeq(s, 1, i - 1)>> \o Split(SubSeq(s, i + 1, Len(s)))

PnpmVersionFirst(p) ==
  LET parts == Split(p) IN parts[IF Len(parts) > 1 THEN 2 ELSE 1]

\* pnpm.split("@")[-1]
PnpmVersion(p) ==
  LET parts == Split(p) IN parts[Len(parts)]

(* --------------------------- the environment --------------------------- *)

ExpectedPath == "binroot/pnpm"

NoBacking == [present |-> FALSE, ver |-> <<>>, broken |-> FALSE]
BrokenBacking == [present |-> TRUE, ver |-> <<>>, broken |-> TRUE]
GoodBacking(v) == [present |-> TRUE, ver |-> v, broken |-> FALSE]

\* versions of pnpm the registry serves
RegistryVersions == {<<"8">>, <<"9">>}

BackingStates ==
  {NoBacking, BrokenBacking} \cup {GoodBacking(v) : v \in RegistryVersions}

AbsentShim == [kind |-> "absent", out |-> <<>>, exit |-> 0]
NonExecShim == [kind |-> "nonexec", out |-> <<>>, exit |-> 0]
WrapperShim == [kind |-> "wrapper", out |-> <<>>, exit |-> 0]
ForeignShim(o, e) == [kind |-> "foreign", out |-> o, exit |-> e]

\* what an executable at {binroot}/pnpm that is not the wrapper may print
ForeignOuts ==
  { <<"8">>, <<"sp", "8", "nl">>, <<"9", "nl">>, <<"8", "+", "a", "nl">> }

ShimStates ==
  {AbsentShim, NonExecShim, WrapperShim, ForeignShim(<<>>, 1)}
    \cup {ForeignShim(o, 0) : o \in ForeignOuts}

\* versions the operations are called with
Versions == { <<"8">>, <<"9">>, <<"8", "+", "a">> }

\* contents of the packageManager field
Manifests ==
  { <<"p", "@", "8">>, <<"p", "@", "8", "+", "a">>,
    <<"@", "s", "@", "9">>, <<"p">> }

Executable(sh) == sh.kind \in {"wrapper", "foreign"}

\* the part of a semantic version before its build metadata
SemverCore(v) ==
  IF \E i \in 1..Len(v) : v[i] = "+"
  THEN SubSeq(v, 1, (CHOOSE k \in 1..Len(v) :
                       v[k] = "+" /\ \A j \in 1..(k - 1) : v[j] # "+") - 1)
  ELSE v

IsSemver(v) ==
  /\ SemverCore(v) # <<>>
  /\ \A i \in 1..Len(SemverCore(v)) : SemverCore(v)[i] \in Digits
  /\ Len(v) # Len(SemverCore(v)) + 1

\* the versions `npm install -g pnpm@<spec>` can leave installed: an exact
\* version selects the release of that version (build metadata is not part
\* of a release's identity); anything else is a tag the registry resolves
NpmResolve(spec) ==
  IF IsSemver(spec)
  THEN {SemverCore(spec)} \cap RegistryVersions
  ELSE RegistryVersions

\* the process `{binroot}/pnpm --version`
RunQuery(sh, bk) ==
  IF sh.kind = "foreign" THEN [exit |-> sh.exit, out |-> sh.out]
  ELSE IF sh.kind = "wrapper" /\ bk.present /\ ~bk.broken
       THEN [exit |-> 0, out |-> bk.ver \o <<"nl">>]
       ELSE [exit |-> 1, out |-> <<>>]

(* ----------------------------- the code -------------------------------- *)

\* shutil.which("pnpm", path=binroot)
Which(sh, sys) == IF Executable(sh) THEN ExpectedPath ELSE "None"

GuardPassesNoBacking(sh, bk, sys) == Which(sh, sys) = ExpectedPath

\* the negation of the condition of the `if` of installed_pnpm
GuardPasses(sh, bk, sys) == Which(sh, sys) = ExpectedPath /\ bk.present

QueryCapture == TRUE

NpmCaptureShown == FALSE

NpmCapture == TRUE

QueryRaisesNever(exit) == FALSE

\* proc.run raises on a nonzero exit
QueryRaises(exit) == exit # 0

NpmRaisesNever(exit) == FALSE

NpmRaises(exit) == exit # 0

InstalledVersionRaw(out) == out

\* installed_version = stdout.strip()
InstalledVersion(out) == Strip(out)

NeedsInstallNever(res) == FALSE

\* `if installed_pnpm(version, binroot): return`
NeedsInstall(res) == res = "false"

NodeInstallRaisesNever(ok) == FALSE

\* node.install has no handler around it in main
NodeInstallRaises(ok) == ~ok

NoPrev == [op |-> "none", version |-> <<>>, outcome |-> "none"]
NoStart == [shim |-> AbsentShim, backing |-> NoBacking, set |-> FALSE]

Count(cmd) == Cardinality({i \in 1..Len(log) : log[i].cmd = cmd})
npmRuns == Count("npm")
queries == Count("query")

Init ==
  /\ shim \in ShimStates
  /\ backing \in BackingStates
  /\ sysPnpm \in BOOLEAN
  /\ pc = "idle"
  /\ op = "none"
  /\ version = <<>>
  /\ stdout = <<>>
  /\ result = "none"
  /\ outcome = "none"
  /\ raisedAt = "none"
  /\ log = <<>>
  /\ writes = 0
  /\ nodeState = "none"
  /\ start = NoStart
  /\ prev = NoPrev
  /\ calls = 0
  /\ pm = <<>>
  /\ pmDone = FALSE

\* a top-level operation begins: the frame of the previous one is dropped
Begin(o, v, p) ==
  /\ pc = "idle"
  /\ calls < MaxCalls
  /\ calls' = calls + 1
  /\ prev' = [op |-> op, version |-> version, outcome |-> outcome]
  /\ op' = o
  /\ version' = v
  /\ pc' = p
  /\ stdout' = <<>>
  /\ result' = "none"
  /\ outcome' = "running"
  /\ raisedAt' = "none"
  /\ log' = <<>>
  /\ writes' = 0
  /\ nodeState' = "none"
  /\ start' = NoStart
  /\ pm' = <<>>
  /\ pmDone' = FALSE
  /\ UNCHANGED fsVars

\* an exception reaches the top: nothing in this file catches one
Raise(at) ==
  /\ pc' = "idle"
  /\ outcome' = "raised"
  /\ raisedAt' = at

Return ==
  /\ pc' = "idle"
  /\ outcome' = "returned"
  /\ raisedAt' = raisedAt

CallMain == Begin("main", <<>>, "main_config")

CallInstallPnpm == \E v \in Versions : Begin("install_pnpm", v, "ip_enter")

CallInstalledPnpm == \E v \in Versions : Begin("installed_pnpm", v, "chk_guard")

\* reporoot = context["reporoot"]; cfg = config.get_repo(reporoot)
MainGetRepo ==
  /\ pc = "main_config"
  /\ \E ok \in BOOLEAN :
       IF ok THEN pc' = "main_node" /\ UNCHANGED <<outcome, raisedAt>>
       ELSE Raise("config")
  /\ UNCHANGED <<fsVars, op, version, stdout, result, log, writes, nodeState,
                 start, prev, calls, pm, pmDone>>

\* node.install(...)
MainNodeInstall ==
  /\ pc = "main_node"
  /\ \E ok \in BOOLEAN :
       /\ nodeState' = IF ok THEN "ok" ELSE "failed"
       /\ IF NodeInstallRaises(ok) THEN Raise("node")
          ELSE pc' = "main_manifest" /\ UNCHANGED <<outcome, raisedAt>>
  /\ UNCHANGED <<fsVars, op, version, stdout, result, log, writes,
                 start, prev, calls, pm, pmDone>>

\* open package.json, json.load, ["packageManager"], split("@")[-1]
MainReadManifest ==
  /\ pc = "main_manifest"
  /\ \/ /\ Raise("manifest")
        /\ UNCHANGED <<version, pm, pmDone>>
     \/ \E p \in Manifests :
          /\ pm' = p
          /\ pmDone' = TRUE
          /\ version' = PnpmVersion(p)
          /\ pc' = "ip_enter"
          /\ UNCHANGED <<outcome, raisedAt>>
  /\ UNCHANGED <<fsVars, op, stdout, result, log, writes, nodeState,
                 start, prev, calls>>

\* binroot = fs.ensure_binroot(reporoot), then the call of installed_pnpm
InstallPnpmEnter ==
  /\ pc = "ip_enter"
  /\ \/ /\ Raise("binroot")
        /\ UNCHANGED start
     \/ /\ pc' = "chk_guard"
        /\ start' = [shim |-> shim, backing |-> backing, set |-> TRUE]
        /\ UNCHANGED <<outcome, raisedAt>>
  /\ UNCHANGED <<fsVars, op, version, stdout, result, log, writes, nodeState,
                 prev, calls, pm, pmDone>>

\* where control goes when installed_pnpm returns
AfterCheck ==
  IF op = "installed_pnpm" THEN Return
  ELSE pc' = "ip_branch" /\ UNCHANGED <<outcome, raisedAt>>

\* the `if` of installed_pnpm and its `return False`
InstalledPnpmGuard ==
  /\ pc = "chk_guard"
  /\ IF GuardPasses(shim, backing, sysPnpm)
     THEN pc' = "chk_run" /\ UNCHANGED <<result, outcome, raisedAt>>
     ELSE result' = "false" /\ AfterCheck
  /\ UNCHANGED <<fsVars, op, version, stdout, log, writes, nodeState,
                 start, prev, calls, pm, pmDone>>

\* stdout = proc.run((f"{binroot}/pnpm", "--version"), stdout=True)
InstalledPnpmRun ==
  /\ pc = "chk_run"
  /\ LET r == RunQuery(shim, backing) IN
       /\ log' = Append(log, [cmd |-> "query", capture |-> QueryCapture,
                              exit |-> r.exit])
       /\ IF QueryRaises(r.exit)
          THEN Raise("query") /\ UNCHANGED stdout
          ELSE /\ stdout' = r.out
               /\ pc' = "chk_cmp"
               /\ UNCHANGED <<outcome, raisedAt>>
  /\ UNCHANGED <<fsVars, op, version, result, writes, nodeState,
                 start, prev, calls, pm, pmDone>>

\* installed_version = stdout.strip(); return version == installed_version
InstalledPnpmCompare ==
  /\ pc = "chk_cmp"
  /\ result' = IF version = InstalledVersion(stdout) THEN "true" ELSE "false"
  /\ AfterCheck
  /\ UNCHANGED <<fsVars, op, version, stdout, log, writes, nodeState,
                 start, prev, calls, pm, pmDone>>

\* `if installed_pnpm(version, binroot): return`, else the print
InstallPnpmBranch ==
  /\ pc = "ip_branch"
  /\ IF NeedsInstall(result)
     THEN pc' = "ip_npm" /\ UNCHANGED <<outcome, raisedAt>>
     ELSE Return
  /\ UNCHANGED <<fsVars, op, version, stdout, result, log, writes, nodeState,
                 start, prev, calls, pm, pmDone>>

\* proc.run((f"{binroot}/npm", "install", "-g", f"pnpm@{version}"), stdout=True)
InstallPnpmNpm ==
  /\ pc = "ip_npm"
  /\ \/ \E v \in NpmResolve(version) :
          /\ backing' = GoodBacking(v)
          /\ log' = Append(log, [cmd |-> "npm", capture |-> NpmCapture,
                                 exit |-> 0])
          /\ pc' = "ip_write"
          /\ UNCHANGED <<outcome, raisedAt>>
     \/ /\ log' = Append(log, [cmd |-> "npm", capture |-> NpmCapture,
                               exit |-> 1])
        /\ IF NpmRaises(1)
           THEN Raise("npm")
           ELSE pc' = "ip_write" /\ UNCHANGED <<outcome, raisedAt>>
        /\ UNCHANGED backing
  /\ UNCHANGED <<shim, sysPnpm, op, version, stdout, result, writes,
                 nodeState, start, prev, calls, pm, pmDone>>

\* fs.write_script(f"{binroot}/pnpm", ...), then the return of install_pnpm
\* (and `return 0` of main)
InstallPnpmWrite ==
  /\ pc = "ip_write"
  /\ writes' = writes + 1
  /\ \/ /\ shim' = WrapperShim
        /\ Return
     \/ /\ Raise("write")
        /\ UNCHANGED shim
  /\ UNCHANGED <<backing, sysPnpm, op, version, stdout, result, log,
                 nodeState, start, prev, calls, pm, pmDone>>

Next ==
  \/ CallMain
  \/ CallInstallPnpm
  \/ CallInstalledPnpm
  \/ MainGetRepo
  \/ MainNodeInstall
  \/ MainReadManifest
  \/ InstallPnpmEnter
  \/ InstalledPnpmGuard
  \/ InstalledPnpmRun
  \/ InstalledPnpmCompare
  \/ InstallPnpmBranch
  \/ InstallPnpmNpm
  \/ InstallPnpmWrite

Spec == Init /\ [][Next]_vars

(* ------- the derivation of pnpm_version, over every short string ------- *)

InitSplit ==
  /\ pm \in StringsUpTo(MaxLen)
  /\ pmDone = FALSE
  /\ shim = AbsentShim
  /\ backing = NoBacking
  /\ sysPnpm = FALSE
  /\ pc = "main_split"
  /\ op = "main"
  /\ version = <<>>
  /\ stdout = <<>>
  /\ result = "none"
  /\ outcome = "running"
  /\ raisedAt = "none"
  /\ log = <<>>
  /\ writes = 0
  /\ nodeState = "ok"
  /\ start = NoStart
  /\ prev = NoPrev
  /\ calls = 1

\* pnpm = package_json["packageManager"]; pnpm_version = pnpm.split("@")[-1]
MainDeriveVersion ==
  /\ pc = "main_split"
  /\ ~pmDone
  /\ version' = PnpmVersion(pm)
  /\ pmDone' = TRUE
  /\ pc' = "ip_enter"
  /\ UNCHANGED <<fsVars, op, stdout, result, outcome, raisedAt, log, writes,
                 nodeState, start, prev, calls, pm>>

NextSplit == MainDeriveVersion

SpecSplit == InitSplit /\ [][NextSplit]_vars

(* ------------------------------ properties ----------------------------- *)

\* v is s without its leading and trailing whitespace
StrippedEq(s, v) ==
  \E i \in 1..(Len(s) + 1) : \E j \in 0..Len(s) :
    /\ SubSeq(s, i, j) = v
    /\ \A k \in 1..(i - 1) : s[k] \in Whitespace
    /\ \A k \in (j + 1)..Len(s) : s[k] \in Whitespace
    /\ v # <<>> => (v[1] \notin Whitespace /\ v[Len(v)] \notin Whitespace)

Finished == pc = "idle" /\ outcome \in {"returned", "raised"}

InPnpmInstaller ==
  \/ pc \in {"ip_enter", "chk_guard", "chk_run", "chk_cmp", "ip_branch",
             "ip_npm", "ip_write"}
  \/ start.set
  \/ log # <<>>
  \/ writes > 0
  \/ result # "none"

NpmFailed == \E i \in 1..Len(log) : log[i].cmd = "npm" /\ log[i].exit # 0
QueryFailed == \E i \in 1..Len(log) : log[i].cmd = "query" /\ log[i].exit # 0

\* the bin-root held a stale install when install_pnpm was entered
StaleStart ==
  /\ start.set
  /\ \/ start.shim.kind # "absent" /\ ~start.backing.present
     \/ /\ Executable(start.shim)
        /\ start.backing.present
        /\ RunQuery(start.shim, start.backing).exit = 0
        /\ ~StrippedEq(RunQuery(start.shim, start.backing).out, version)

\* C1: once install_pnpm(version) has returned without raising, an
\* immediately following installed_pnpm(version) returns True.
C1_InstallThenInstalled ==
  ( /\ op = "installed_pnpm"
    /\ Finished
    /\ prev.op = "install_pnpm"
    /\ prev.outcome = "returned"
    /\ prev.version = version )
  => (outcome = "returned" /\ result = "true")

\* C2: a second install_pnpm with the same version, right after a first one
\* that returned, finds installed_pnpm true, never runs npm install and
\* never writes the shim.
C2_SecondInstallDoesNothing ==
  ( /\ op = "install_pnpm"
    /\ prev.op = "install_pnpm"
    /\ prev.outcome = "returned"
    /\ prev.version = version )
  => /\ npmRuns = 0
     /\ writes = 0
     /\ result # "false"
     /\ (Finished /\ start.set) => (outcome = "returned" /\ result = "true")

\* C3: when installed_pnpm returns, it returns True exactly when
\* {binroot}/pnpm is an executable file of the bin-root, the backing binary
\* exists, and the output of `{binroot}/pnpm --version` without its
\* surrounding whitespace equals version; a pnpm on the system-wide PATH
\* plays no part.
C3_TrueIffAllThree ==
  ( /\ result # "none"
    /\ op = "installed_pnpm" \/ pc \in {"ip_branch", "ip_npm"} )
  => ( (result = "true")
       <=> ( /\ Executable(shim)
             /\ backing.present
             /\ RunQuery(shim, backing).exit = 0
             /\ StrippedEq(RunQuery(shim, backing).out, version) ) )

C3_Witness ==
  /\ op = "installed_pnpm"
  /\ Finished
  /\ result = "true"
  /\ stdout # version
  /\ sysPnpm

\* C4: while the shim file exists and the backing binary does not,
\* installed_pnpm never runs the version query, never raises from it and
\* never returns True; when it has returned, it returned False.
C4_OrphanShimIsFalse ==
  (shim.kind # "absent" /\ ~backing.present)
  => /\ pc \notin {"chk_run", "chk_cmp"}
     /\ queries = 0
     /\ raisedAt # "query"
     /\ result # "true"
     /\ (op = "installed_pnpm" /\ Finished)
          => (outcome = "returned" /\ result = "false")

C4_Witness ==
  /\ op = "installed_pnpm"
  /\ Finished
  /\ shim = ForeignShim(<<"8">>, 0)
  /\ ~backing.present
  /\ version = <<"8">>
  /\ result = "false"

\* C5: in a run of main, no step of the pnpm installer happens unless
\* node.install has completed successfully; when node.install fails the
\* pnpm installer is never started and main does not return 0.
C5_NodeBeforePnpm ==
  op = "main"
  => /\ InPnpmInstaller => nodeState = "ok"
     /\ nodeState = "failed"
          => (Finished /\ outcome = "raised" /\ ~InPnpmInstaller)
     /\ outcome = "returned" => nodeState = "ok"

C5_Witness ==
  /\ op = "main"
  /\ Finished
  /\ outcome = "returned"
  /\ nodeState = "ok"
  /\ npmRuns = 1
  /\ writes = 1

\* C6: when the npm global install exits nonzero, install_pnpm ends by
\* raising there: npm ran once, the shim was not written and is the file it
\* was on entry.
C6_NpmFailureIsFatal ==
  NpmFailed
  => /\ Finished
     /\ outcome = "raised"
     /\ raisedAt = "npm"
     /\ npmRuns = 1
     /\ writes = 0
     /\ shim = start.shim

C6_Witness ==
  /\ NpmFailed
  /\ outcome = "raised"
  /\ start.shim.kind = "foreign"
  /\ shim = start.shim

\* C7: when the version query exits nonzero, installed_pnpm returns nothing
\* and the error ends the operation: no npm install and no shim write follow.
C7_QueryFailurePropagates ==
  QueryFailed
  => /\ Finished
     /\ outcome = "raised"
     /\ raisedAt = "query"
     /\ result = "none"
     /\ npmRuns = 0
     /\ writes = 0

C7_Witness ==
  /\ QueryFailed
  /\ op = "install_pnpm"
  /\ outcome = "raised"
  /\ Executable(shim)
  /\ backing.present

\* C8: install_pnpm entered on a stale bin-root does not raise from the
\* check, finds installed_pnpm false and takes the install path: npm install
\* runs exactly once, the shim write comes after it, and when install_pnpm
\* returns the shim has been overwritten by the wrapper.
C8_StaleStartInstalls ==
  StaleStart
  => /\ raisedAt # "query"
     /\ result # "true"
     /\ pc = "ip_npm" => (npmRuns = 0 /\ writes = 0)
     /\ pc = "ip_write" => (npmRuns = 1 /\ writes = 0 /\ ~NpmFailed)
     /\ Finished => /\ npmRuns = 1
                    /\ raisedAt \in {"none", "npm", "write"}
     /\ (Finished /\ outcome = "returned")
          => (writes = 1 /\ shim = WrapperShim /\ ~NpmFailed)

C8_Witness ==
  /\ StaleStart
  /\ Finished
  /\ outcome = "returned"
  /\ start.shim.kind = "foreign"
  /\ start.backing.present
  /\ shim = WrapperShim
  /\ npmRuns = 1

\* C9 (as stated): npm install is run with its output shown, not captured,
\* and the version query with its output captured.
C9_NpmShownQueryCaptured ==
  \A i \in 1..Len(log) :
    /\ log[i].cmd = "npm" => ~log[i].capture
    /\ log[i].cmd = "query" => log[i].capture

\* C9 (amended): npm install is run in the same output mode as the version
\* query: both pass stdout=True, the mode whose output the runner returns.
C9_BothCaptured ==
  \A i \in 1..Len(log) : \A j \in 1..Len(log) :
    /\ log[i].capture = log[j].capture
    /\ log[i].capture = TRUE

C9_Witness ==
  /\ Len(log) = 2
  /\ log[1].cmd = "query"
  /\ log[2].cmd = "npm"

\* C10: for a packageManager string with at least one "@", the version
\* handed to install_pnpm is the text after the last "@", character for
\* character.
C10_AfterLastAt ==
  (pmDone /\ \E i \in 1..Len(pm) : pm[i] = "@")
  => \E k \in 1..Len(pm) :
       /\ pm[k] = "@"
       /\ \A j \in (k + 1)..Len(pm) : pm[j] # "@"
       /\ version = SubSeq(pm, k + 1, Len(pm))

C10_Witness ==
  /\ pmDone
  /\ pc = "ip_enter"
  /\ Cardinality({i \in 1..Len(pm) : pm[i] = "@"}) = 2
  /\ \E i \in 1..Len(version) : version[i] = "+"
  /\ \E i \in 1..Len(version) : version[i] = "sp"

====
